---- MODULE Spec2Model ----
(***************************************************************************)
(* Model of cogs/example/example.py (class Example): per-guild trigger     *)
(* records and settings, the in-memory cooldown map, the slash commands    *)
(* and the on_message listener.                                            *)
(*                                                                         *)
(* Strings are sequences of one-character strings so that str.lower() and  *)
(* the `in` containment test are computed, not assumed.  Timestamps are    *)
(* whole seconds.  A coroutine runs atomically between two awaits; the     *)
(* only await of on_message that is followed by code is the channel send   *)
(* of line 198, so a handler is one step up to the send and one step from  *)
(* the return of the send.  The send is taken to succeed.                  *)
(***************************************************************************)
EXTENDS Integers, Sequences, FiniteSets, Bags, TLC

\* ---------------------------------------------------------------- bounds
MaxElapsed == 5      \* seconds the clock may advance after start-up
MaxInFlight == 2     \* handlers suspended in channel.send at one time
MaxId == 2           \* rows inserted per guild after Init

\* ------------------------------------------------------ program constants
MaxTriggers == 20    \* len(messages) >= 20
DefaultEnabled == 1  \* default_settings['enabled']
DefaultCooldown == 5 \* default_settings['cooldown']
Unset == 0           \* cds.setdefault(message.author.id, 0)

\* ------------------------------------------------------------ input sets
Guilds == {"g1", "g2"}
Users == {"u1", "u2"}
None == "None"                       \* interaction.guild / message.guild in a DM
StartTime == DefaultCooldown + 1     \* wall clock at start-up, far above 0
Times == StartTime .. (StartTime + MaxElapsed)
CooldownInputs == {-1, 0, DefaultCooldown}

VARIABLES
  settings,    \* guild -> [enabled, cooldown], the 'settings' DictTable (strings)
  messages,    \* guild -> rows of the 'messages' table, in rowid order
  seq,         \* guild -> largest id ever issued (AUTOINCREMENT)
  cooldowns,   \* self.__cooldowns : {guild_id: {user_id: timestamp}}
  clock,       \* datetime.now().timestamp()
  tasks,       \* bag of on_message coroutines suspended in channel.send
  last         \* the operation that ran last and what it answered

vars == <<settings, messages, seq, cooldowns, clock, tasks, last>>


\* --------------------------------------------------------------- strings
Lower(ch) == CASE ch = "H" -> "h" [] ch = "I" -> "i" [] OTHER -> ch

lower_Identity(s) == s

lower(s) == [i \in 1 .. Len(s) |-> Lower(s[i])]

\* Python `t in c` for str
Contains(t, c) ==
  \E i \in 0 .. (Len(c) - Len(t)) : SubSeq(c, i + 1, i + Len(t)) = t

\* ------------------------------------ settings are stored as text values
Digits == <<"0", "1", "2", "3", "4", "5", "6", "7", "8", "9">>

RECURSIVE StrOfInt(_)
StrOfInt(n) ==
  IF n < 0 THEN <<"-">> \o StrOfInt(0 - n)
  ELSE IF n < 10 THEN <<Digits[n + 1]>>
  ELSE Append(StrOfInt(n \div 10), Digits[(n % 10) + 1])

DigitVal(d) == (CHOOSE k \in 1 .. 10 : Digits[k] = d) - 1

RECURSIVE IntOfStr(_)
IntOfStr(s) ==
  IF Len(s) = 0 THEN 0
  ELSE IF Head(s) = "-" THEN 0 - IntOfStr(Tail(s))
  ELSE 10 * IntOfStr(SubSeq(s, 1, Len(s) - 1)) + DigitVal(s[Len(s)])

StrOfBool(b) == StrOfInt(IF b THEN 1 ELSE 0)

BoolOfStr(s) == IntOfStr(s) # 0

default_settings ==
  [enabled |-> StrOfInt(DefaultEnabled), cooldown |-> StrOfInt(DefaultCooldown)]

is_enabled(g) == BoolOfStr(settings[g].enabled)

get_guild_cooldown(g) == IntOfStr(settings[g].cooldown)

set_enabled(g, enabled) ==
  settings' = [settings EXCEPT ![g].enabled = StrOfBool(enabled)]

set_guild_cooldown(g, cooldown) ==
  settings' = [settings EXCEPT ![g].cooldown = StrOfInt(cooldown)]

\* ----------------------------------------------------- the messages table
\* SELECT * FROM messages : the rows of the guild, in rowid order
get_messages(g) == messages[g]

add_message_MaxRowid(rows, lastid, trigger, response, author_id) ==
  Append(rows, [id |-> IF rows = << >> THEN 1 ELSE rows[Len(rows)].id + 1,
                trigger |-> trigger,
                response |-> response, author_id |-> author_id])

\* INSERT INTO messages : id is AUTOINCREMENT, one above the largest ever issued
add_message(rows, lastid, trigger, response, author_id) ==
  Append(rows, [id |-> lastid + 1, trigger |-> trigger,
                response |-> response, author_id |-> author_id])

remove_message_UpTo(rows, id) == SelectSeq(rows, LAMBDA r : r.id > id)

\* DELETE FROM messages WHERE id = ?
remove_message(rows, id) == SelectSeq(rows, LAMBDA r : r.id # id)

Duplicate(rows, trigger) == \E i \in 1 .. Len(rows) : rows[i].trigger = trigger

LimitReached_Never(rows) == FALSE

LimitReached_Above(rows) == Len(rows) > MaxTriggers

LimitReached(rows) == Len(rows) >= MaxTriggers

trig_add_result_LimitFirst(rows, lastid, user, trigger, response) ==
  LET t == lower(trigger)
  IN  IF LimitReached(rows)
      THEN [res |-> "LimitExceeded", rows |-> rows, seq |-> lastid]
      ELSE IF Duplicate(rows, t)
      THEN [res |-> "DuplicateTrigger", rows |-> rows, seq |-> lastid]
      ELSE [res |-> "Success", seq |-> lastid + 1,
            rows |-> add_message(rows, lastid, t, response, user)]

trig_add_result_CountsIssued(rows, lastid, user, trigger, response) ==
  LET t == lower(trigger)
  IN  IF Duplicate(rows, t)
      THEN [res |-> "DuplicateTrigger", rows |-> rows, seq |-> lastid]
      ELSE IF lastid >= MaxTriggers
      THEN [res |-> "LimitExceeded", rows |-> rows, seq |-> lastid]
      ELSE [res |-> "Success", seq |-> lastid + 1,
            rows |-> add_message(rows, lastid, t, response, user)]

trig_add_result_InsertFirst(rows, lastid, user, trigger, response) ==
  LET t == lower(trigger)
      ins == add_message(rows, lastid, t, response, user)
  IN  IF Duplicate(rows, t)
      THEN [res |-> "DuplicateTrigger", rows |-> rows, seq |-> lastid]
      ELSE IF LimitReached(rows)
      THEN [res |-> "LimitExceeded", rows |-> ins, seq |-> lastid + 1]
      ELSE [res |-> "Success", rows |-> ins, seq |-> lastid + 1]

\* lines 144-155 on the rows of one guild: the answer, the rows and the
\* id counter afterwards
trig_add_result(rows, lastid, user, trigger, response) ==
  LET t == lower(trigger)
  IN  IF Duplicate(rows, t)
      THEN [res |-> "DuplicateTrigger", rows |-> rows, seq |-> lastid]
      ELSE IF LimitReached(rows)
      THEN [res |-> "LimitExceeded", rows |-> rows, seq |-> lastid]
      ELSE [res |-> "Success", seq |-> lastid + 1,
            rows |-> add_message(rows, lastid, t, response, user)]

\* ---------------------------------------------------------- the cooldowns
Disabled_Never(g) == FALSE

\* line 184: the handler returns when this holds
Disabled(g) == ~is_enabled(g)

\* timestamp held for (g, u), an absent entry counting as Unset
lastTimestamp(g, u) ==
  IF g \in DOMAIN cooldowns /\ u \in DOMAIN cooldowns[g]
  THEN cooldowns[g][u] ELSE Unset

SetDefaults_Stamp(g, u) ==
  LET cds == IF g \in DOMAIN cooldowns THEN cooldowns[g] ELSE << >>
  IN  (g :> ((u :> clock) @@ cds)) @@ cooldowns

\* self.__cooldowns after the two setdefault calls of lines 189-190
SetDefaults(g, u) ==
  LET cds == IF g \in DOMAIN cooldowns THEN cooldowns[g] ELSE << >>
      cds1 == IF u \in DOMAIN cds THEN cds ELSE (u :> Unset) @@ cds
  IN  (g :> cds1) @@ cooldowns

InCooldown_Inclusive(last_resp, guild_cooldown, now) ==
  last_resp + guild_cooldown >= now

\* line 191: the handler returns when this holds
InCooldown(last_resp, guild_cooldown, now) == last_resp + guild_cooldown > now

\* line 197
Matches(row, content) == Contains(row.trigger, content)

FirstMatch_Last(rows, content) ==
  IF \E i \in 1 .. Len(rows) : Matches(rows[i], content)
  THEN CHOOSE i \in 1 .. Len(rows) :
         /\ Matches(rows[i], content)
         /\ \A j \in (i + 1) .. Len(rows) : ~Matches(rows[j], content)
  ELSE 0

\* lines 196-197: index of the first row whose trigger is in content, 0 if none
FirstMatch(rows, content) ==
  IF \E i \in 1 .. Len(rows) : Matches(rows[i], content)
  THEN CHOOSE i \in 1 .. Len(rows) :
         /\ Matches(rows[i], content)
         /\ \A j \in 1 .. (i - 1) : ~Matches(rows[j], content)
  ELSE 0

RecordedTimestamp_CheckTime(h, now) == h.now

\* line 199: the timestamp written once the send has returned is a fresh
\* reading of the clock
RecordedTimestamp(h, now) == now

Record_WholeGuild(cds, g, u, ts) ==
  [cds EXCEPT ![g] = [v \in DOMAIN @ |-> ts]]

\* line 199: cds[message.author.id] = ... on the dict of the guild
Record(cds, g, u, ts) == [cds EXCEPT ![g][u] = ts]

\* ------------------------------------------------------------------ Init
NoOp == [op |-> "init", g |-> None, u |-> None, arg |-> None, res |-> "none"]

Init ==
  /\ settings = [g \in Guilds |-> default_settings]
  /\ messages = [g \in Guilds |-> << >>]
  /\ seq = [g \in Guilds |-> 0]
  /\ cooldowns = << >>
  /\ clock = StartTime
  /\ tasks = EmptyBag
  /\ last = NoOp

\* --------------------------------------------------------------- commands
Answer(op, g, u, arg, res) ==
  last' = [op |-> op, g |-> g, u |-> u, arg |-> arg, res |-> res]

\* `if not isinstance(interaction.guild, discord.Guild): return ...`
NotInScope(op, u, arg) ==
  /\ Answer(op, None, u, arg, "NotInScope")
  /\ UNCHANGED <<settings, messages, seq, cooldowns, clock, tasks>>

config_enable(g, u, enabled) ==
  IF g = None THEN NotInScope("enable", u, enabled)
  ELSE /\ set_enabled(g, enabled)
       /\ Answer("enable", g, u, enabled, "Success")
       /\ UNCHANGED <<messages, seq, cooldowns, clock, tasks>>

InRange_Any(cooldown) == TRUE

\* cooldown: app_commands.Range[int, 0]
InRange(cooldown) == cooldown >= 0

\* a value out of the range is refused before the callback runs
config_cooldown(g, u, cooldown) ==
  IF ~InRange(cooldown)
  THEN /\ Answer("cooldown", g, u, cooldown, "OutOfRange")
       /\ UNCHANGED <<settings, messages, seq, cooldowns, clock, tasks>>
  ELSE IF g = None THEN NotInScope("cooldown", u, cooldown)
  ELSE /\ set_guild_cooldown(g, cooldown)
       /\ Answer("cooldown", g, u, cooldown, "Success")
       /\ UNCHANGED <<messages, seq, cooldowns, clock, tasks>>

trig_list(g, u) ==
  IF g = None THEN NotInScope("list", u, None)
  ELSE /\ Answer("list", g, u, Len(get_messages(g)),
                 IF get_messages(g) = << >> THEN "Empty" ELSE "Listed")
       /\ UNCHANGED <<settings, messages, seq, cooldowns, clock, tasks>>

trig_add(g, u, trigger, response) ==
  IF g = None THEN NotInScope("add", u, trigger)
  ELSE LET r == trig_add_result(get_messages(g), seq[g], u, trigger, response)
       IN  /\ messages' = [messages EXCEPT ![g] = r.rows]
           /\ seq' = [seq EXCEPT ![g] = r.seq]
           /\ Answer("add", g, u, trigger, r.res)
           /\ UNCHANGED <<settings, cooldowns, clock, tasks>>

trig_remove(g, u, id) ==
  IF g = None THEN NotInScope("remove", u, id)
  ELSE /\ messages' = [messages EXCEPT ![g] = remove_message(@, id)]
       /\ Answer("remove", g, u, id, "Success")
       /\ UNCHANGED <<settings, seq, cooldowns, clock, tasks>>

\* ---------------------------------------------- trig_add as a coroutine
AwaitBeforeInsert_Yes == TRUE

\* lines 146-154 hold no await: the read, the two tests and the INSERT run
\* without giving the event loop a turn
AwaitBeforeInsert == FALSE

\* lines 141-155 up to the await of send_message: a handler that would
\* suspend before its INSERT keeps only its decision
trig_add_begin(g, u, trigger, response) ==
  LET r == trig_add_result(get_messages(g), seq[g], u, trigger, response)
      co == [g |-> g, u |-> u, trigger |-> trigger, response |-> response]
  IN  IF AwaitBeforeInsert /\ r.res = "Success"
      THEN /\ tasks' = tasks (+) SetToBag({co @@ [res |-> "Inserting"]})
           /\ UNCHANGED <<settings, messages, seq, cooldowns, clock, last>>
      ELSE /\ messages' = [messages EXCEPT ![g] = r.rows]
           /\ seq' = [seq EXCEPT ![g] = r.seq]
           /\ tasks' = tasks (+) SetToBag({co @@ [res |-> r.res]})
           /\ UNCHANGED <<settings, cooldowns, clock, last>>

\* the handler resumes and ends: the answer has reached the member
trig_add_end(co) ==
  /\ BagIn(co, tasks)
  /\ tasks' = tasks (-) SetToBag({co})
  /\ IF co.res = "Inserting"
     THEN /\ messages' = [messages EXCEPT ![co.g] =
                add_message(@, seq[co.g], lower(co.trigger), co.response, co.u)]
          /\ seq' = [seq EXCEPT ![co.g] = @ + 1]
          /\ Answer("add", co.g, co.u, co.trigger, "Success")
     ELSE /\ Answer("add", co.g, co.u, co.trigger, co.res)
          /\ UNCHANGED <<messages, seq>>
  /\ UNCHANGED <<settings, cooldowns, clock>>

\* ------------------------------------------------------------ on_message
\* lines 181-198, up to the await of channel.send
on_message(g, u, bot, content) ==
  IF g = None \/ bot
  THEN /\ Answer("msg", g, u, content, "ignored")
       /\ UNCHANGED <<settings, messages, seq, cooldowns, clock, tasks>>
  ELSE IF Disabled(g)
  THEN /\ Answer("msg", g, u, content, "disabled")
       /\ UNCHANGED <<settings, messages, seq, cooldowns, clock, tasks>>
  ELSE
    LET guild_cooldown == get_guild_cooldown(g)
        cds == SetDefaults(g, u)
        last_resp == cds[g][u]
        rows == get_messages(g)
        k == FirstMatch(rows, content)
    IN  IF InCooldown(last_resp, guild_cooldown, clock)
        THEN /\ cooldowns' = cds
             /\ Answer("msg", g, u, content, "cooldown")
             /\ UNCHANGED <<settings, messages, seq, clock, tasks>>
        ELSE IF k = 0
        THEN /\ cooldowns' = cds
             /\ Answer("msg", g, u, content, "nomatch")
             /\ UNCHANGED <<settings, messages, seq, clock, tasks>>
        ELSE /\ BagCardinality(tasks) < MaxInFlight
             /\ tasks' = tasks (+) SetToBag({[g |-> g, u |-> u,
                           response |-> rows[k].response, now |-> clock]})
             /\ cooldowns' = cds
             /\ Answer("msg", g, u, content, "sending")
             /\ UNCHANGED <<settings, messages, seq, clock>>

\* error of the taxonomy: a persistence operation failed
StoreUnavailable == "StoreUnavailable"

\* the calls of the handler that go to the store
StoreCalls == {"is_enabled", "get_guild_cooldown", "get_messages"}

\* lines 181-195 when the store call `at` raises: nothing in on_message
\* catches, so the handler ends there with the error raised to its caller
on_message_raises(g, u, content, at) ==
  /\ g # None
  /\ at \in StoreCalls
  /\ at # "is_enabled" => ~Disabled(g)
  /\ at = "get_messages"
       => ~InCooldown(SetDefaults(g, u)[g][u], get_guild_cooldown(g), clock)
  /\ cooldowns' = IF at = "get_messages" THEN SetDefaults(g, u) ELSE cooldowns
  /\ Answer("msg", g, u, content, StoreUnavailable)
  /\ UNCHANGED <<settings, messages, seq, clock, tasks>>

\* lines 198-200: the send returns, the timestamp is written, the loop ends
send_return(h) ==
  /\ BagIn(h, tasks)
  /\ cooldowns' = Record(cooldowns, h.g, h.u, RecordedTimestamp(h, clock))
  /\ tasks' = tasks (-) SetToBag({h})
  /\ last' = [op |-> "sent", g |-> h.g, u |-> h.u, arg |-> h.response,
              res |-> "Emitted", now |-> h.now]
  /\ UNCHANGED <<settings, messages, seq, clock>>

Tick ==
  /\ clock < StartTime + MaxElapsed
  /\ clock' = clock + 1
  /\ UNCHANGED <<settings, messages, seq, cooldowns, tasks, last>>

\* ------------------------------------------------------------------ Next
\* one guild, one member, one trigger: the commands of u1 in g1 and the
\* messages of u1 in g1 or in a DM
AddInputs == {<<"u1", <<"H", "i">>, "r1">>}

\* the add reaches the INSERT
Inserts(g, trigger) ==
  /\ g # None
  /\ trig_add_result(get_messages(g), seq[g], "u1", trigger, "r1").res = "Success"

Enable == \E b \in BOOLEAN : config_enable("g1", "u1", b)

Cooldown == \E c \in CooldownInputs : config_cooldown("g1", "u1", c)

Add ==
  \E a \in AddInputs :
    /\ Inserts("g1", a[2]) => seq["g1"] < MaxId
    /\ trig_add("g1", a[1], a[2], a[3])

\* <<guild, author is a bot, content>>
MessageInputs ==
  {<<"g1", FALSE, <<"h", "i">>>>, <<"g1", FALSE, <<"H", "i">>>>,
   <<"g1", TRUE, <<"h", "i">>>>, <<None, FALSE, <<"h", "i">>>>}

Message == \E m \in MessageInputs : on_message(m[1], "u1", m[2], m[3])

Remove == trig_remove("g1", "u1", 1)

SendReturn == \E h \in BagToSet(tasks) : send_return(h)

Next == Enable \/ Cooldown \/ Add \/ Remove \/ Message \/ SendReturn \/ Tick

Spec == Init /\ [][Next]_vars

\* --------------------------------------------- a guild close to the limit
\* the n-th of a family of distinct lower-case triggers: h, i, hh, hi, ih, ...
RECURSIVE TriggerNo(_)
TriggerNo(n) ==
  IF n = 0 THEN << >>
  ELSE Append(TriggerNo((n - 1) \div 2), IF n % 2 = 1 THEN "h" ELSE "i")

\* the table and the id counter after n successive adds on an empty guild
RECURSIVE Filled(_)
Filled(n) ==
  IF n = 0 THEN [res |-> "Success", rows |-> << >>, seq |-> 0]
  ELSE LET p == Filled(n - 1)
       IN  trig_add_result(p.rows, p.seq, "u1", TriggerNo(n),
                           IF n % 2 = 1 THEN "r1" ELSE "r2")

InitStore ==
  /\ settings = [g \in Guilds |-> default_settings]
  /\ messages = [g \in Guilds |->
       IF g = "g1" THEN Filled(MaxTriggers - 1).rows ELSE << >>]
  /\ seq = [g \in Guilds |-> IF g = "g1" THEN Filled(MaxTriggers - 1).seq ELSE 0]
  /\ cooldowns = << >>
  /\ clock = StartTime
  /\ tasks = EmptyBag
  /\ last = NoOp

StoreTriggers ==
  {TriggerNo(MaxTriggers), TriggerNo(MaxTriggers + 1), <<"H", "i">>, <<"i">>}

StoreIds == {1, 4, MaxTriggers, MaxTriggers + MaxId + 1}

StoreAdd ==
  \E g \in {"g1", None}, t \in StoreTriggers :
    /\ Inserts(g, t) => seq[g] < MaxTriggers - 1 + MaxId
    /\ trig_add(g, "u1", t, "r1")

StoreRemove == \E g \in {"g1", None}, id \in StoreIds : trig_remove(g, "u1", id)

StoreList == \E g \in {"g1", None} : trig_list(g, "u1")

StoreEnable == \E g \in {"g1", None} : config_enable(g, "u1", FALSE)

StoreCooldown == \E g \in {"g1", None} : config_cooldown(g, "u1", 0)

\* a message of u1 that holds no trigger: the cooldown entry of u1 is created
StoreMessage == on_message("g1", "u1", FALSE, <<"x">>)

NextStore ==
  \/ StoreAdd
  \/ StoreRemove
  \/ StoreList
  \/ StoreEnable
  \/ StoreCooldown
  \/ StoreMessage

SpecStore == InitStore /\ [][NextStore]_vars

\* ------------------------------------- two guilds, two members, one trigger
InitPairs ==
  /\ settings = [g \in Guilds |-> default_settings]
  /\ messages = [g \in Guilds |-> Filled(2).rows]
  /\ seq = [g \in Guilds |-> Filled(2).seq]
  /\ cooldowns = << >>
  /\ clock = StartTime
  /\ tasks = EmptyBag
  /\ last = NoOp

PairInputs == {<<"g1", "u1">>, <<"g1", "u2">>, <<"g2", "u1">>}

PairsMessage ==
  \E p \in PairInputs :
    /\ tasks = EmptyBag
    /\ on_message(p[1], p[2], FALSE, <<"h", "i">>)

NextPairs == PairsMessage \/ SendReturn \/ Tick

SpecPairs == InitPairs /\ [][NextPairs]_vars

\* ------------------------------------ one guild, several matching triggers
InitMatch ==
  /\ settings = [g \in Guilds |-> default_settings]
  /\ messages = [g \in Guilds |-> IF g = "g1" THEN Filled(3).rows ELSE << >>]
  /\ seq = [g \in Guilds |-> IF g = "g1" THEN Filled(3).seq ELSE 0]
  /\ cooldowns = << >>
  /\ clock = StartTime
  /\ tasks = EmptyBag
  /\ last = NoOp

MatchContents == {<<"h", "i">>, <<"H", "i">>, <<"i", "h", "h">>, <<"H">>}

MatchMessage == \E c \in MatchContents : on_message("g1", "u1", FALSE, c)

MatchRemove == \E id \in {1, 2} : trig_remove("g1", "u1", id)

NextMatch == MatchMessage \/ MatchRemove \/ SendReturn \/ Tick

SpecMatch == InitMatch /\ [][NextMatch]_vars

\* ------------------------------------------- messages while the store fails
FailContents == {<<"h", "i">>, <<"x">>}

FailMessage == \E c \in FailContents : on_message("g1", "u1", FALSE, c)

FailRaise ==
  \E c \in FailContents, at \in StoreCalls :
    on_message_raises("g1", "u1", c, at)

FailEnable == \E b \in BOOLEAN : config_enable("g1", "u1", b)

NextFail == FailMessage \/ FailRaise \/ FailEnable \/ SendReturn \/ Tick

SpecFail == InitPairs /\ [][NextFail]_vars

\* ------------------------------ add commands of two members, interleaved
AddsTriggers ==
  {TriggerNo(MaxTriggers), TriggerNo(MaxTriggers + 1), <<"H", "i">>}

AddsBegin ==
  \E u \in Users, t \in AddsTriggers :
    /\ BagCardinality(tasks) < MaxInFlight
    /\ seq["g1"] < MaxTriggers - 1 + MaxId
    /\ trig_add_begin("g1", u, t, "r1")

AddsEnd == \E co \in BagToSet(tasks) : trig_add_end(co)

NextAdds == AddsBegin \/ AddsEnd

SpecAdds == InitStore /\ [][NextAdds]_vars

\* ================================================================ claims
IsLowerCase(s) == \A i \in 1 .. Len(s) : s[i] \notin {"H", "I"}

SameLetter(a, b) == a = b \/ {a, b} = {"h", "H"} \/ {a, b} = {"i", "I"}

SameIgnoringCase(s, t) ==
  /\ Len(s) = Len(t)
  /\ \A i \in 1 .. Len(s) : SameLetter(s[i], t[i])

\* the user may be answered at `now` : now - lastTimestamp >= cooldownSeconds
Eligible(g, u) == clock - lastTimestamp(g, u) >= get_guild_cooldown(g)

Passed(res) == res \in {"nomatch", "sending"}

\* C1: a handler never passes the cooldown check and starts a send while the
\* send of an earlier message of the same user in the same guild, arrived
\* less than cooldownSeconds before, has not written its timestamp yet
C1_CriticalSection ==
  [][\A m \in MessageInputs :
       (last'.res = "sending" /\ on_message(m[1], "u1", m[2], m[3]))
         => \A h \in BagToSet(tasks) :
              (h.g = m[1] /\ h.u = "u1")
                => clock - h.now >= get_guild_cooldown(m[1])]_vars

\* C2: every guild holds at most 20 rows in every reachable state
C2_AtMostTwenty == \A g \in Guilds : Len(messages[g]) <= 20

C2_Witness ==
  /\ Len(messages["g1"]) = 20
  /\ last.op = "add"
  /\ last.res = "LimitExceeded"

\* C3: the stored triggers of a guild are lower-case and pairwise different
\* ignoring case, and an add whose trigger equals a stored one ignoring case
\* answers DuplicateTrigger and leaves the table as it was
C3_UniqueIgnoringCase ==
  /\ [](\A g \in Guilds : \A i, j \in 1 .. Len(messages[g]) :
          /\ IsLowerCase(messages[g][i].trigger)
          /\ i # j => ~SameIgnoringCase(messages[g][i].trigger,
                                        messages[g][j].trigger))
  /\ [][\A t \in StoreTriggers :
          (/\ trig_add("g1", "u1", t, "r1")
           /\ \E i \in 1 .. Len(messages["g1"]) :
                SameIgnoringCase(messages["g1"][i].trigger, t))
            => (last'.res = "DuplicateTrigger" /\ messages' = messages)]_vars

C3_Witness ==
  /\ last.op = "add"
  /\ last.res = "DuplicateTrigger"
  /\ last.arg = <<"H", "i">>
  /\ \E i \in 1 .. Len(messages["g1"]) : messages["g1"][i].trigger = <<"h", "i">>

\* C4: a message of a member in an enabled guild passes the cooldown check
\* iff now - lastTimestamp >= cooldownSeconds, an absent entry counting as 0
C4_EligibleIff ==
  [][\A m \in MessageInputs :
       (/\ last'.op = "msg"
        /\ m[1] # None /\ ~m[2]
        /\ is_enabled(m[1])
        /\ on_message(m[1], "u1", m[2], m[3]))
         => (Passed(last'.res) <=> Eligible(m[1], "u1"))]_vars

\* the boundary: a message handled exactly cooldownSeconds = 5 after the last
\* recorded response has passed the check
C4_Witness ==
  /\ last.op = "msg"
  /\ last.res = "sending"
  /\ get_guild_cooldown("g1") = 5
  /\ lastTimestamp("g1", "u1") >= StartTime
  /\ \E h \in BagToSet(tasks) :
       h.now = clock /\ h.now - lastTimestamp("g1", "u1") = 5

\* C5: a message handled while the flag of its guild is false gets no
\* response and changes nothing, whatever the triggers and the cooldown;
\* config_enable sets the flag to its argument, and as soon as the flag is
\* true a message of an eligible member that contains a trigger is answered
C5_EnabledFlag ==
  [][/\ \A b \in BOOLEAN :
          config_enable("g1", "u1", b) => (is_enabled("g1")' <=> b)
     /\ \A m \in MessageInputs :
          (/\ last'.op = "msg"
           /\ m[1] # None /\ ~m[2]
           /\ on_message(m[1], "u1", m[2], m[3]))
            => /\ ~is_enabled(m[1])
                    => /\ last'.res = "disabled"
                       /\ tasks' = tasks
                       /\ cooldowns' = cooldowns
               /\ (/\ is_enabled(m[1])
                   /\ Eligible(m[1], "u1")
                   /\ \E i \in 1 .. Len(messages[m[1]]) :
                        Contains(messages[m[1]][i].trigger, m[3]))
                    => /\ last'.res = "sending"
                       /\ BagCardinality(tasks') = BagCardinality(tasks) + 1]_vars

\* a message that contains a trigger, sent after the cooldown of an earlier
\* response has elapsed, was dropped because the guild is disabled
C5_Witness ==
  /\ last.op = "msg"
  /\ last.res = "disabled"
  /\ last.arg = <<"h", "i">>
  /\ ~is_enabled("g1")
  /\ lastTimestamp("g1", "u1") >= StartTime
  /\ Eligible("g1", "u1")
  /\ \E i \in 1 .. Len(messages["g1"]) : messages["g1"][i].trigger = <<"h", "i">>

\* C6: in an enabled guild a message of an eligible member starts exactly one
\* send, of the response of the row of lowest id whose trigger is in the
\* content, and none when no row matches; a send that returns is one emission
C6_LowestIdMatch ==
  [][/\ \A c \in MatchContents :
          (/\ last'.op = "msg"
           /\ is_enabled("g1")
           /\ Eligible("g1", "u1")
           /\ on_message("g1", "u1", FALSE, c))
            => LET rows == messages["g1"]
                   M == {i \in 1 .. Len(rows) : Contains(rows[i].trigger, c)}
               IN  IF M = {}
                   THEN last'.res = "nomatch" /\ tasks' = tasks
                   ELSE \E i \in M :
                          /\ \A j \in M : rows[i].id <= rows[j].id
                          /\ last'.res = "sending"
                          /\ tasks' = tasks (+) SetToBag({[g |-> "g1", u |-> "u1",
                                response |-> rows[i].response, now |-> clock]})
     /\ \A h \in BagToSet(tasks) :
          send_return(h)
            => /\ last'.op = "sent"
               /\ last'.arg = h.response
               /\ BagCardinality(tasks') = BagCardinality(tasks) - 1]_vars

\* two rows match the content and the response of the older one is being sent
C6_Witness ==
  /\ last.op = "msg"
  /\ last.res = "sending"
  /\ last.arg = <<"i", "h", "h">>
  /\ Len(messages["g1"]) = 2
  /\ messages["g1"][1].trigger = <<"i">>
  /\ messages["g1"][2].trigger = <<"h", "h">>
  /\ \E h \in BagToSet(tasks) :
       h.now = clock /\ h.response = messages["g1"][1].response

\* C7: right after the trigger "Hi" has been added, a message "Hi" of an
\* eligible member in the enabled guild is answered
C7_ExactCaseMatches ==
  [][(/\ last.op = "add"
      /\ last.res = "Success"
      /\ last.arg = <<"H", "i">>
      /\ is_enabled("g1")
      /\ Eligible("g1", "u1")
      /\ last'.op = "msg"
      /\ on_message("g1", "u1", FALSE, <<"H", "i">>))
       => last'.res = "sending"]_vars

\* C8: the timestamp of a pair changes only in the step in which a send to
\* that member in that guild returns, and every such step writes it
C8_RecordIffEmit ==
  [][/\ \A g \in Guilds, u \in Users :
          lastTimestamp(g, u)' # lastTimestamp(g, u)
            => /\ last'.op = "sent"
               /\ last'.g = g
               /\ last'.u = u
               /\ \E h \in BagToSet(tasks) : send_return(h)
     /\ \A h \in BagToSet(tasks) :
          send_return(h)
            => /\ h.g \in DOMAIN cooldowns'
               /\ h.u \in DOMAIN cooldowns'[h.g]
               /\ cooldowns'[h.g][h.u] >= StartTime
               /\ cooldowns'[h.g][h.u] >= h.now]_vars

\* a message that contains the trigger arrived during the cooldown of an
\* earlier response and left the timestamp where it was
C8_Witness ==
  /\ last.op = "msg"
  /\ last.res = "cooldown"
  /\ last.arg = <<"h", "i">>
  /\ is_enabled("g1")
  /\ lastTimestamp("g1", "u1") >= StartTime
  /\ clock > lastTimestamp("g1", "u1")
  /\ \E i \in 1 .. Len(messages["g1"]) : messages["g1"][i].trigger = <<"h", "i">>

\* C9 as claimed: the timestamp recorded is the one the cooldown check used
C9_RecordsCheckTime ==
  [][\A h \in BagToSet(tasks) :
       send_return(h) => lastTimestamp(h.g, h.u)' = h.now]_vars

\* C9 amended: the timestamp recorded is the clock when the send returns,
\* which is not before the time the cooldown check used
C9_RecordsReturnTime ==
  [][\A h \in BagToSet(tasks) :
       send_return(h)
         => /\ lastTimestamp(h.g, h.u)' = clock
            /\ clock >= h.now]_vars

\* a response was emitted for a message checked before the recorded time
C9_Witness ==
  /\ last.op = "sent"
  /\ lastTimestamp(last.g, last.u) = clock
  /\ last.now < clock

\* C10: a send that returns changes neither the timestamp nor the eligibility
\* of any other pair, and a message passes the cooldown check according to
\* the timestamp of its own pair alone
C10_Independent ==
  [][/\ \A h \in BagToSet(tasks) :
          send_return(h)
            => \A g \in Guilds, u \in Users :
                 (g # h.g \/ u # h.u)
                   => /\ lastTimestamp(g, u)' = lastTimestamp(g, u)
                      /\ Eligible(g, u)' <=> Eligible(g, u)
     /\ \A p \in PairInputs :
          (/\ last'.op = "msg"
           /\ on_message(p[1], p[2], FALSE, <<"h", "i">>))
            => (Passed(last'.res) <=> Eligible(p[1], p[2]))]_vars

\* u1 was answered at start-up and u2, in the same guild with cooldown 5,
\* one second later
C10_Witness ==
  /\ last.op = "sent"
  /\ last.g = "g1"
  /\ last.u = "u2"
  /\ last.now = StartTime + 1
  /\ get_guild_cooldown("g1") = 5
  /\ lastTimestamp("g1", "u1") = StartTime
  /\ lastTimestamp("g1", "u2") = StartTime + 1

LiveDuplicate(g, t) ==
  \E i \in 1 .. Len(messages[g]) : SameIgnoringCase(messages[g][i].trigger, t)

RowIds(rows) == {rows[i].id : i \in 1 .. Len(rows)}

\* C11: an add on a guild that holds 20 rows, with a trigger that equals no
\* stored one, answers LimitExceeded and leaves the table and the id counter
\* as they were
C11_LimitExceeded ==
  [][\A t \in StoreTriggers :
       (/\ last'.op = "add"
        /\ Len(messages["g1"]) = 20
        /\ ~LiveDuplicate("g1", t)
        /\ trig_add("g1", "u1", t, "r1"))
         => /\ last'.res = "LimitExceeded"
            /\ messages' = messages
            /\ seq' = seq]_vars

C11_Witness ==
  /\ last.op = "add"
  /\ last.res = "LimitExceeded"
  /\ last.arg = TriggerNo(MaxTriggers + 1)
  /\ Len(messages["g1"]) = 20
  /\ ~LiveDuplicate("g1", TriggerNo(MaxTriggers + 1))

\* C12: a remove answers Success; with an id no row has it leaves the table
\* as it was, with the id of a row it deletes that row and keeps the others
\* in their order
C12_RemoveExactly ==
  [][\A id \in StoreIds :
       (last'.op = "remove" /\ trig_remove("g1", "u1", id))
         => LET rows == messages["g1"]
                rows2 == messages'["g1"]
            IN  /\ last'.res = "Success"
                /\ id \notin RowIds(rows) => rows2 = rows
                /\ id \in RowIds(rows)
                     => /\ Len(rows2) = Len(rows) - 1
                        /\ id \notin RowIds(rows2)
                        /\ \A i \in 1 .. Len(rows) :
                             rows[i].id # id
                               => \E j \in 1 .. Len(rows2) : rows2[j] = rows[i]
                /\ \A i, j \in 1 .. Len(rows2) :
                     i < j => rows2[i].id < rows2[j].id]_vars

\* an id that was never issued is removed: the answer is Success and the 19
\* rows are still there
C12_Witness ==
  /\ last.op = "remove"
  /\ last.res = "Success"
  /\ last.arg = MaxTriggers + MaxId + 1
  /\ (MaxTriggers + MaxId + 1) \notin RowIds(messages["g1"])
  /\ Len(messages["g1"]) = MaxTriggers - 1
  /\ seq["g1"] = MaxTriggers - 1

\* C13: the ids of a guild increase along its rows, none is above the id
\* counter, the counter never goes down, and an inserted row gets an id above
\* the counter, hence above every id issued before, deleted rows included
C13_IdsNeverReused ==
  /\ [](\A g \in Guilds :
          /\ \A i \in 1 .. Len(messages[g]) : messages[g][i].id <= seq[g]
          /\ \A i, j \in 1 .. Len(messages[g]) :
               i < j => messages[g][i].id < messages[g][j].id)
  /\ [][\A g \in Guilds :
          /\ seq'[g] >= seq[g]
          /\ \A id \in RowIds(messages'[g]) \ RowIds(messages[g]) :
               id > seq[g] /\ id <= seq'[g]]_vars

\* the row of the largest id was deleted and the next insert did not take
\* its id
C13_Witness ==
  /\ last.op = "add"
  /\ last.res = "Success"
  /\ MaxTriggers \notin RowIds(messages["g1"])
  /\ (MaxTriggers + 1) \in RowIds(messages["g1"])
  /\ MaxTriggers - 1 \in RowIds(messages["g1"])

\* C17: on a guild that holds 20 rows an add whose trigger equals a stored
\* one ignoring case answers DuplicateTrigger
C17_DuplicateBeforeLimit ==
  [][\A t \in StoreTriggers :
       (/\ last'.op = "add"
        /\ Len(messages["g1"]) = 20
        /\ LiveDuplicate("g1", t)
        /\ trig_add("g1", "u1", t, "r1"))
         => last'.res = "DuplicateTrigger"]_vars

C17_Witness ==
  /\ last.op = "add"
  /\ last.res = "DuplicateTrigger"
  /\ last.arg = <<"H", "i">>
  /\ Len(messages["g1"]) = 20
  /\ LiveDuplicate("g1", <<"H", "i">>)

\* C20: an add succeeds whenever no row of the guild has its trigger and the
\* guild holds fewer than 20 rows, however many rows were deleted before
C20_LiveRowsOnly ==
  [][\A t \in StoreTriggers :
       (/\ last'.op = "add"
        /\ ~LiveDuplicate("g1", t)
        /\ Len(messages["g1"]) < 20
        /\ trig_add("g1", "u1", t, "r1"))
         => /\ last'.res = "Success"
            /\ Len(messages'["g1"]) = Len(messages["g1"]) + 1
            /\ SameIgnoringCase(messages'["g1"][Len(messages'["g1"])].trigger, t)]_vars

\* the guild held 20 rows, the row of trigger "hi" was deleted, and the add
\* of "Hi" was accepted as the 20th row
C20_Witness ==
  /\ last.op = "add"
  /\ last.res = "Success"
  /\ last.arg = <<"H", "i">>
  /\ Len(messages["g1"]) = 20
  /\ seq["g1"] = MaxTriggers + 1
  /\ 4 \notin RowIds(messages["g1"])
  /\ messages["g1"][20].trigger = <<"h", "i">>

Rejected == {"DuplicateTrigger", "LimitExceeded", "NotInScope"}

\* C15: a command answered DuplicateTrigger, LimitExceeded or NotInScope
\* leaves the rows, the id counters, the settings and the cooldown entries of
\* every guild as they were
C15_RejectedChangesNothing ==
  [][last'.res \in Rejected
       => /\ messages' = messages
          /\ seq' = seq
          /\ settings' = settings
          /\ cooldowns' = cooldowns
          /\ tasks' = tasks]_vars

\* a command sent outside a guild is refused while the guild holds 20 rows,
\* a cooldown of 0 and a cooldown entry for u1
C15_Witness ==
  /\ last.res = "NotInScope"
  /\ last.op = "enable"
  /\ Len(messages["g1"]) = 20
  /\ get_guild_cooldown("g1") = 0
  /\ is_enabled("g1")
  /\ cooldowns # << >>

\* C16: the cooldown of a guild is 5 at the start and never negative; it
\* changes only by a cooldown command answered Success, to the value given,
\* and a negative value is answered OutOfRange with the settings untouched
C16_CooldownNeverNegative ==
  /\ \A g \in Guilds : get_guild_cooldown(g) = 5
  /\ [](\A g \in Guilds : get_guild_cooldown(g) >= 0)
  /\ [][\A g \in Guilds :
          settings'[g].cooldown # settings[g].cooldown
            => /\ last'.op = "cooldown"
               /\ last'.res = "Success"
               /\ last'.g = g
               /\ last'.arg >= 0
               /\ get_guild_cooldown(g)' = last'.arg]_vars
  /\ [][\A c \in CooldownInputs :
          (last'.op = "cooldown" /\ c < 0 /\ config_cooldown("g1", "u1", c))
            => last'.res = "OutOfRange" /\ settings' = settings]_vars

\* -1 is refused after the cooldown was set to 0
C16_Witness ==
  /\ last.op = "cooldown"
  /\ last.res = "OutOfRange"
  /\ last.arg = -1
  /\ get_guild_cooldown("g1") = 0

\* C19: the timestamp kept for a member of a guild never decreases, in
\* whatever order the handlers suspended in their send return
C19_TimestampNeverDecreases ==
  [][\A g \in Guilds, u \in Users :
       lastTimestamp(g, u)' >= lastTimestamp(g, u)]_vars

\* two handlers of the same member were suspended in their send; the one that
\* started later has returned and recorded, the earlier one is still suspended
C19_Witness ==
  /\ last.op = "sent"
  /\ lastTimestamp(last.g, last.u) > last.now
  /\ \E h \in BagToSet(tasks) :
       h.g = last.g /\ h.u = last.u /\ h.now < last.now

NoOutput == {"ignored", "disabled", "cooldown", "nomatch"}

\* C14: a handler in which a store call fails ends with one of the normal
\* "no output" outcomes: nothing is sent, no timestamp changes, and no error
\* leaves the handler
C14_StoreFailureIsNoOutput ==
  [][\A c \in FailContents, at \in StoreCalls :
       (last'.op = "msg" /\ on_message_raises("g1", "u1", c, at))
         => /\ last'.res \in NoOutput
            /\ tasks' = tasks
            /\ \A g \in Guilds, v \in Users :
                 lastTimestamp(g, v)' = lastTimestamp(g, v)]_vars

\* C18: when the add commands of two members interleave, the guild never
\* holds more than 20 rows nor two rows of the same trigger, two handlers in
\* flight never both succeed with the same trigger, and of the adds on a
\* guild of 19 rows only one succeeds
C18_ConcurrentAdds ==
  /\ Len(messages["g1"]) <= 20
  /\ \A i, j \in 1 .. Len(messages["g1"]) :
       i # j => ~SameIgnoringCase(messages["g1"][i].trigger,
                                  messages["g1"][j].trigger)
  /\ \A co \in BagToSet(tasks) :
       co.res = "Success" => CopiesIn(co, tasks) = 1
  /\ \A p, q \in BagToSet(tasks) :
       (p # q /\ p.res = "Success" /\ q.res = "Success")
         => ~SameIgnoringCase(p.trigger, q.trigger)
  /\ seq["g1"] <= MaxTriggers
  /\ Len(messages["g1"]) = seq["g1"]

\* two handlers are suspended in their answer: the add of u1 has inserted
\* the 20th row, the add of u2 with another trigger was refused
C18_Witness ==
  /\ Len(messages["g1"]) = 20
  /\ \E p, q \in BagToSet(tasks) :
       /\ p.u = "u1" /\ p.res = "Success"
       /\ q.u = "u2" /\ q.res = "LimitExceeded"
       /\ ~SameIgnoringCase(p.trigger, q.trigger)
====
